---- MODULE Spec2Model ----
(***************************************************************************)
(* Model of src/config/settings.rs: the Settings value, the SettingsBuilder *)
(* override accumulator (_merge, build), the MissingRuntimeBehavior enum    *)
(* with its Display impl, and Settings::to_index_map.                       *)
(*                                                                          *)
(* Option<T> is a sequence of length 0 (None) or 1 (Some(x)).  An IndexMap  *)
(* is a sequence of <<key, value>> pairs in insertion order.  A Duration is *)
(* its number of whole seconds.  Enum variants are named by their Rust      *)
(* identifiers, which differ from the tokens Display writes.                *)
(***************************************************************************)
EXTENDS Integers, Sequences, FiniteSets

VARIABLES
    builder,   \* the SettingsBuilder being accumulated (the receiver `self`)
    merged,    \* the arguments of the _merge calls made so far, oldest first
    env,       \* env::RTX_MISSING_RUNTIME_BEHAVIOR, an Option<String>
    tty,       \* what is_tty() answers at this moment
    built,     \* the Settings returned by the build() calls so far, oldest first
    map,       \* the IndexMap returned by the last to_index_map call
    last       \* the operation that ran last

vars == <<builder, merged, env, tty, built, map, last>>

----------------------------------------------------------------------------
(* Bounds *)

MaxMerges == 2    \* _merge calls in a run of SpecMerge
MaxLayers == 1    \* _merge calls in a run of Spec
MaxBuilds == 2    \* build() calls in a run of Spec

----------------------------------------------------------------------------
(* Option<T> *)

None == <<>>
Some(x) == <<x>>
is_some(o) == Len(o) = 1
unwrap_or(o, d) == IF is_some(o) THEN o[1] ELSE d
\* Option<String>::unwrap_or_default: the default String is empty
unwrap_or_default(o) == unwrap_or(o, "")

----------------------------------------------------------------------------
(* MissingRuntimeBehavior and its Display impl *)

MissingRuntimeBehavior == {"AutoInstall", "Prompt", "Warn", "Ignore"}

\* Display with the tokens of Warn and Ignore exchanged
fmt_swapped(v) ==
    CASE v = "AutoInstall" -> "autoinstall"
      [] v = "Prompt"      -> "prompt"
      [] v = "Warn"        -> "ignore"
      [] v = "Ignore"      -> "warn"

fmt(v) ==
    CASE v = "AutoInstall" -> "autoinstall"
      [] v = "Prompt"      -> "prompt"
      [] v = "Warn"        -> "warn"
      [] v = "Ignore"      -> "ignore"

----------------------------------------------------------------------------
(* to_string of bool and u64, Duration *)

bool_to_string(b) == IF b THEN "true" ELSE "false"

digit(d) ==
    CASE d = 0 -> "0" [] d = 1 -> "1" [] d = 2 -> "2" [] d = 3 -> "3"
      [] d = 4 -> "4" [] d = 5 -> "5" [] d = 6 -> "6" [] d = 7 -> "7"
      [] d = 8 -> "8" [] d = 9 -> "9"

RECURSIVE u64_to_string(_)
u64_to_string(n) ==
    IF n < 10 THEN digit(n) ELSE u64_to_string(n \div 10) \o digit(n % 10)

from_secs(s) == s
as_secs(d) == d

----------------------------------------------------------------------------
(* IndexMap *)

IndexMap_new == <<>>

\* IndexMap::insert: a key already present keeps its position and takes the
\* new value; a new key is appended.
insert(m, k, v) ==
    IF \E i \in 1..Len(m) : m[i][1] = k
    THEN [i \in 1..Len(m) |-> IF m[i][1] = k THEN <<k, v>> ELSE m[i]]
    ELSE Append(m, <<k, v>>)

----------------------------------------------------------------------------
(* Settings *)

\* Settings::default() with legacy_version_file off
Settings_default_legacy_off(is_tty) ==
    [ missing_runtime_behavior              |-> "Prompt",
      always_keep_download                  |-> FALSE,
      legacy_version_file                   |-> FALSE,
      disable_plugin_short_name_repository  |-> FALSE,
      plugin_autoupdate_last_check_duration |-> 60 * 60 * 24 * 7,
      plugin_repository_last_check_duration |-> 60 * 60 * 24 * 7,
      aliases                               |-> <<>>,
      verbose                               |-> ~is_tty ]

\* impl Default for Settings; is_tty is the answer of is_tty() at the call
Settings_default(is_tty) ==
    [ missing_runtime_behavior              |-> "Prompt",
      always_keep_download                  |-> FALSE,
      legacy_version_file                   |-> TRUE,
      disable_plugin_short_name_repository  |-> FALSE,
      plugin_autoupdate_last_check_duration |-> from_secs(60 * 60 * 24 * 7),
      plugin_repository_last_check_duration |-> from_secs(60 * 60 * 24 * 7),
      aliases                               |-> IndexMap_new,
      verbose                               |-> ~is_tty ]

\* to_index_map rounding the minutes to the nearest instead of truncating
to_index_map_rounding(self) ==
    LET m1 == insert(IndexMap_new, "missing_runtime_behavior",
                     fmt(self.missing_runtime_behavior))
        m2 == insert(m1, "always_keep_download",
                     bool_to_string(self.always_keep_download))
        m3 == insert(m2, "legacy_version_file",
                     bool_to_string(self.legacy_version_file))
        m4 == insert(m3, "disable_plugin_short_name_repository",
                     bool_to_string(self.disable_plugin_short_name_repository))
        m5 == insert(m4, "plugin_autoupdate_last_check_duration",
                     u64_to_string((as_secs(self.plugin_autoupdate_last_check_duration) + 30) \div 60))
        m6 == insert(m5, "plugin_repository_last_check_duration",
                     u64_to_string((as_secs(self.plugin_repository_last_check_duration) + 30) \div 60))
        m7 == insert(m6, "verbose", bool_to_string(self.verbose))
    IN  m7

\* to_index_map that also exports the number of aliased plugins
to_index_map_with_aliases(self) ==
    LET m1 == insert(IndexMap_new, "missing_runtime_behavior",
                     fmt(self.missing_runtime_behavior))
        m2 == insert(m1, "always_keep_download",
                     bool_to_string(self.always_keep_download))
        m3 == insert(m2, "legacy_version_file",
                     bool_to_string(self.legacy_version_file))
        m4 == insert(m3, "disable_plugin_short_name_repository",
                     bool_to_string(self.disable_plugin_short_name_repository))
        m5 == insert(m4, "plugin_autoupdate_last_check_duration",
                     u64_to_string(as_secs(self.plugin_autoupdate_last_check_duration) \div 60))
        m6 == insert(m5, "plugin_repository_last_check_duration",
                     u64_to_string(as_secs(self.plugin_repository_last_check_duration) \div 60))
        m7 == insert(m6, "verbose", bool_to_string(self.verbose))
    IN  IF self.aliases = IndexMap_new
        THEN m7
        ELSE insert(m7, "aliases", u64_to_string(Len(self.aliases)))

to_index_map(self) ==
    LET m1 == insert(IndexMap_new, "missing_runtime_behavior",
                     fmt(self.missing_runtime_behavior))
        m2 == insert(m1, "always_keep_download",
                     bool_to_string(self.always_keep_download))
        m3 == insert(m2, "legacy_version_file",
                     bool_to_string(self.legacy_version_file))
        m4 == insert(m3, "disable_plugin_short_name_repository",
                     bool_to_string(self.disable_plugin_short_name_repository))
        m5 == insert(m4, "plugin_autoupdate_last_check_duration",
                     u64_to_string(as_secs(self.plugin_autoupdate_last_check_duration) \div 60))
        m6 == insert(m5, "plugin_repository_last_check_duration",
                     u64_to_string(as_secs(self.plugin_repository_last_check_duration) \div 60))
        m7 == insert(m6, "verbose", bool_to_string(self.verbose))
    IN  m7

----------------------------------------------------------------------------
(* SettingsBuilder *)

Fields ==
    { "missing_runtime_behavior", "always_keep_download", "legacy_version_file",
      "disable_plugin_short_name_repository",
      "plugin_autoupdate_last_check_duration",
      "plugin_repository_last_check_duration", "aliases", "verbose" }

\* #[derive(Default)]: every field is None
SettingsBuilder_default == [f \in Fields |-> None]

\* _merge that keeps a field the receiver already has
merge_keep_first(self, other) ==
    [f \in Fields |-> IF is_some(self[f]) THEN self[f] ELSE other[f]]

\* _merge without the is_some tests: every field is assigned
merge_overwrite(self, other) == other

\* SettingsBuilder::_merge(&mut self, other): the value of *self on return
_merge(self, other) ==
    LET s1 == IF is_some(other.missing_runtime_behavior)
              THEN [self EXCEPT !.missing_runtime_behavior = other.missing_runtime_behavior]
              ELSE self
        s2 == IF is_some(other.always_keep_download)
              THEN [s1 EXCEPT !.always_keep_download = other.always_keep_download]
              ELSE s1
        s3 == IF is_some(other.legacy_version_file)
              THEN [s2 EXCEPT !.legacy_version_file = other.legacy_version_file]
              ELSE s2
        s4 == IF is_some(other.disable_plugin_short_name_repository)
              THEN [s3 EXCEPT !.disable_plugin_short_name_repository =
                                  other.disable_plugin_short_name_repository]
              ELSE s3
        s5 == IF is_some(other.plugin_autoupdate_last_check_duration)
              THEN [s4 EXCEPT !.plugin_autoupdate_last_check_duration =
                                  other.plugin_autoupdate_last_check_duration]
              ELSE s4
        s6 == IF is_some(other.plugin_repository_last_check_duration)
              THEN [s5 EXCEPT !.plugin_repository_last_check_duration =
                                  other.plugin_repository_last_check_duration]
              ELSE s5
        s7 == IF is_some(other.verbose)
              THEN [s6 EXCEPT !.verbose = other.verbose]
              ELSE s6
        s8 == IF is_some(other.aliases)
              THEN [s7 EXCEPT !.aliases = other.aliases]
              ELSE s7
    IN  s8

\* the match with the builder's field consulted before the environment
resolve_builder_first(self, e, settings) ==
    LET s == unwrap_or_default(e)
    IN  IF is_some(self.missing_runtime_behavior)
        THEN self.missing_runtime_behavior[1]
        ELSE CASE s = "autoinstall" -> "AutoInstall"
               [] s = "warn"        -> "Warn"
               [] s = "ignore"      -> "Ignore"
               [] s = "prompt"      -> "Prompt"
               [] OTHER -> settings.missing_runtime_behavior

\* the match made case-insensitive
resolve_ignoring_case(self, e, settings) ==
    LET s == unwrap_or_default(e)
    IN  CASE s \in {"autoinstall", "AUTOINSTALL"} -> "AutoInstall"
          [] s \in {"warn", "WARN"}               -> "Warn"
          [] s \in {"ignore", "IGNORE"}           -> "Ignore"
          [] s \in {"prompt", "PROMPT"}           -> "Prompt"
          [] OTHER -> unwrap_or(self.missing_runtime_behavior,
                                settings.missing_runtime_behavior)

\* the match on the environment variable in build()
resolve_missing_runtime_behavior(self, e, settings) ==
    LET s == unwrap_or_default(e)
    IN  CASE s = "autoinstall" -> "AutoInstall"
          [] s = "warn"        -> "Warn"
          [] s = "ignore"      -> "Ignore"
          [] s = "prompt"      -> "Prompt"
          [] OTHER -> unwrap_or(self.missing_runtime_behavior,
                                settings.missing_runtime_behavior)

\* build() with the default of verbose fixed instead of asked of is_tty()
build_verbose_off(self, e, is_tty) ==
    LET settings == [Settings_default(is_tty) EXCEPT !.verbose = FALSE]
    IN  [ missing_runtime_behavior |->
              resolve_missing_runtime_behavior(self, e, settings),
          always_keep_download |->
              unwrap_or(self.always_keep_download, settings.always_keep_download),
          legacy_version_file |->
              unwrap_or(self.legacy_version_file, settings.legacy_version_file),
          disable_plugin_short_name_repository |->
              unwrap_or(self.disable_plugin_short_name_repository,
                        settings.disable_plugin_short_name_repository),
          plugin_repository_last_check_duration |->
              unwrap_or(self.plugin_repository_last_check_duration,
                        settings.plugin_repository_last_check_duration),
          plugin_autoupdate_last_check_duration |->
              unwrap_or(self.plugin_autoupdate_last_check_duration,
                        settings.plugin_autoupdate_last_check_duration),
          verbose |-> unwrap_or(self.verbose, settings.verbose),
          aliases |-> unwrap_or(self.aliases, settings.aliases) ]

\* SettingsBuilder::build(&self); e is the environment variable, is_tty the
\* answer of is_tty() when Settings::default() runs inside the call
build(self, e, is_tty) ==
    LET settings == Settings_default(is_tty)
    IN  [ missing_runtime_behavior |->
              resolve_missing_runtime_behavior(self, e, settings),
          always_keep_download |->
              unwrap_or(self.always_keep_download, settings.always_keep_download),
          legacy_version_file |->
              unwrap_or(self.legacy_version_file, settings.legacy_version_file),
          disable_plugin_short_name_repository |->
              unwrap_or(self.disable_plugin_short_name_repository,
                        settings.disable_plugin_short_name_repository),
          plugin_repository_last_check_duration |->
              unwrap_or(self.plugin_repository_last_check_duration,
                        settings.plugin_repository_last_check_duration),
          plugin_autoupdate_last_check_duration |->
              unwrap_or(self.plugin_autoupdate_last_check_duration,
                        settings.plugin_autoupdate_last_check_duration),
          verbose |-> unwrap_or(self.verbose, settings.verbose),
          aliases |-> unwrap_or(self.aliases, settings.aliases) ]

----------------------------------------------------------------------------
(* Inputs *)

Option(S) == {None} \cup {Some(x) : x \in S}

\* durations around the minute boundaries, in seconds
DurationSecs == {59, 90, 119}
Durations == {from_secs(s) : s \in DurationSecs}

\* AliasMap values: the empty map and a map with one plugin and one alias
AliasMaps == { IndexMap_new, << <<"node", << <<"lts", "18">> >> >> >> }

FieldValues(f) ==
    CASE f = "missing_runtime_behavior"              -> MissingRuntimeBehavior
      [] f = "always_keep_download"                  -> BOOLEAN
      [] f = "legacy_version_file"                   -> BOOLEAN
      [] f = "disable_plugin_short_name_repository"  -> BOOLEAN
      [] f = "plugin_autoupdate_last_check_duration" -> Durations
      [] f = "plugin_repository_last_check_duration" -> Durations
      [] f = "aliases"                               -> AliasMaps
      [] f = "verbose"                               -> BOOLEAN

\* SettingsBuilder { f: Some(v), ..SettingsBuilder::default() }
OneField(f, v) == [SettingsBuilder_default EXCEPT ![f] = Some(v)]

\* a SettingsBuilder with every field set
AllFields(b) ==
    [ missing_runtime_behavior              |-> Some(IF b THEN "AutoInstall" ELSE "Ignore"),
      always_keep_download                  |-> Some(b),
      legacy_version_file                   |-> Some(~b),
      disable_plugin_short_name_repository  |-> Some(b),
      plugin_autoupdate_last_check_duration |-> Some(from_secs(IF b THEN 59 ELSE 90)),
      plugin_repository_last_check_duration |-> Some(from_secs(IF b THEN 90 ELSE 119)),
      aliases                               |-> Some(IF b THEN << <<"node", << <<"lts", "18">> >> >> >>
                                                          ELSE IndexMap_new),
      verbose                               |-> Some(b) ]

\* the builders handed to _merge: the empty one, each field set alone to each
\* of its values, and two with every field set
Builders ==
    {SettingsBuilder_default}
        \cup UNION {{OneField(f, v) : v \in FieldValues(f)} : f \in Fields}
        \cup {AllFields(b) : b \in BOOLEAN}

\* values of the environment variable: absent, empty, the four tokens, a
\* differently-cased token and an arbitrary string
EnvValues ==
    { None, Some(""), Some("autoinstall"), Some("warn"), Some("ignore"),
      Some("prompt"), Some("WARN"), Some("bogus") }

----------------------------------------------------------------------------
(* Operations *)

Merge(other) ==
    /\ builder' = _merge(builder, other)
    /\ merged' = Append(merged, other)
    /\ last' = "_merge"
    /\ UNCHANGED <<env, tty, built, map>>

\* build() storing what it resolved back into the builder
Build_fills_builder ==
    /\ Len(built) < MaxBuilds
    /\ built' = Append(built, build(builder, env, tty))
    /\ builder' = [f \in Fields |-> Some(build(builder, env, tty)[f])]
    /\ last' = "build"
    /\ UNCHANGED <<merged, env, tty, map>>

Build ==
    /\ Len(built) < MaxBuilds
    /\ built' = Append(built, build(builder, env, tty))
    /\ last' = "build"
    /\ UNCHANGED <<builder, merged, env, tty, map>>

ToIndexMap ==
    /\ built # <<>>
    /\ map' = to_index_map(built[Len(built)])
    /\ last' = "to_index_map"
    /\ UNCHANGED <<builder, merged, env, tty, built>>

\* the terminal is attached or detached: is_tty() answers differently from now on
TtyChanges ==
    /\ tty' = ~tty
    /\ last' = "tty"
    /\ UNCHANGED <<builder, merged, env, built, map>>

\* the override layers are merged before the builder is first resolved
MergeLayer ==
    \E other \in Builders :
        Len(merged) < MaxLayers /\ built = <<>> /\ Merge(other)

MergeNext == \E other \in Builders : Len(merged) < MaxMerges /\ Merge(other)

Init ==
    /\ builder = SettingsBuilder_default
    /\ merged = <<>>
    /\ env \in EnvValues
    /\ tty \in BOOLEAN
    /\ built = <<>>
    /\ map = IndexMap_new
    /\ last = "default"

Next == MergeLayer \/ Build \/ ToIndexMap \/ TtyChanges

Spec == Init /\ [][Next]_vars

\* merges only, with the environment held fixed
InitMerge ==
    /\ builder = SettingsBuilder_default
    /\ merged = <<>>
    /\ env = None
    /\ tty = TRUE
    /\ built = <<>>
    /\ map = IndexMap_new
    /\ last = "default"

SpecMerge == InitMerge /\ [][MergeNext]_vars

----------------------------------------------------------------------------
(* Properties *)

Last(sq) == sq[Len(sq)]

\* the value of field f in the last builder of bs that sets it, None if none does
RECURSIVE LastSetIn(_, _)
LastSetIn(bs, f) ==
    IF bs = <<>> THEN None
    ELSE IF is_some(Last(bs)[f]) THEN Last(bs)[f]
    ELSE LastSetIn(SubSeq(bs, 1, Len(bs) - 1), f)

RecognizedTokens == {"autoinstall", "warn", "ignore", "prompt"}

\* the variant each recognized token of the environment variable stands for
VariantOfToken(t) ==
    CASE t = "autoinstall" -> "AutoInstall"
      [] t = "warn"        -> "Warn"
      [] t = "ignore"      -> "Ignore"
      [] t = "prompt"      -> "Prompt"

EnvRecognized == is_some(env) /\ env[1] \in RecognizedTokens

\* C1: a._merge(b) leaves in each field of a the value of b if b sets the
\* field (also over a different value a held) and a's previous value (or
\* unset) otherwise; hence after merging b1..bn into an empty builder each
\* field holds the value of the last bi that sets it, or is unset.
C1_MergeRightBiased ==
    [][ merged' # merged =>
          LET b == Last(merged')
          IN  /\ \A f \in Fields :
                    builder'[f] = IF is_some(b[f]) THEN b[f] ELSE builder[f]
              /\ \A f \in Fields : builder'[f] = LastSetIn(merged', f) ]_vars

\* two merges set the same field to different values and the later one stays
C1_Witness ==
    /\ Len(merged) = 2
    /\ \E f \in Fields :
          /\ is_some(merged[1][f]) /\ is_some(merged[2][f])
          /\ merged[1][f] # merged[2][f]
          /\ builder[f] = merged[2][f]
    /\ \E g \in Fields :
          /\ is_some(merged[1][g]) /\ ~is_some(merged[2][g])
          /\ builder[g] = merged[1][g]

\* C2: with the environment variable holding one of the four recognized
\* tokens, build() returns the variant of that token as
\* missing_runtime_behavior, whatever the builder's field is.
C2_EnvPrecedence ==
    EnvRecognized =>
        \A i \in 1..Len(built) :
            built[i].missing_runtime_behavior = VariantOfToken(env[1])

\* environment "warn" against a builder that says AutoInstall
C2_Witness ==
    /\ env = Some("warn")
    /\ builder.missing_runtime_behavior = Some("AutoInstall")
    /\ built # <<>>
    /\ Last(built).missing_runtime_behavior = "Warn"

\* C3: with the environment variable absent, empty or holding anything but
\* one of the four lowercase tokens, build() returns the builder's
\* missing_runtime_behavior if it is set and Prompt otherwise.
C3_EnvFallback ==
    ~EnvRecognized =>
        \A i \in 1..Len(built) :
            built[i].missing_runtime_behavior =
                IF is_some(builder.missing_runtime_behavior)
                THEN builder.missing_runtime_behavior[1]
                ELSE "Prompt"

\* an upper-case token falls through to the builder's value
C3_Witness ==
    /\ env = Some("WARN")
    /\ builder.missing_runtime_behavior = Some("Ignore")
    /\ built # <<>>
    /\ Last(built).missing_runtime_behavior = "Ignore"

\* the built-in default of each field other than missing_runtime_behavior,
\* seen by a build() call during which is_tty() answers t
BuiltInDefault(f, t) ==
    CASE f = "always_keep_download"                  -> FALSE
      [] f = "legacy_version_file"                   -> TRUE
      [] f = "disable_plugin_short_name_repository"  -> FALSE
      [] f = "plugin_autoupdate_last_check_duration" -> 604800
      [] f = "plugin_repository_last_check_duration" -> 604800
      [] f = "aliases"                               -> <<>>
      [] f = "verbose"                               -> ~t

\* C4: every field other than missing_runtime_behavior resolves to the
\* builder's value if set and to the built-in default otherwise, whatever the
\* environment variable holds; an empty builder with no environment variable
\* resolves to Prompt, legacy_version_file, not always_keep_download and
\* verbose = not is_tty.
C4_TwoLevelPrecedence ==
    /\ \A i \in 1..Len(built) :
          \A f \in Fields \ {"missing_runtime_behavior", "verbose"} :
              built[i][f] = IF is_some(builder[f]) THEN builder[f][1]
                            ELSE BuiltInDefault(f, tty)
    /\ last = "build" =>
          Last(built).verbose = IF is_some(builder.verbose) THEN builder.verbose[1]
                                ELSE BuiltInDefault("verbose", tty)
    /\ (last = "build" /\ builder = SettingsBuilder_default /\ env = None) =>
          /\ Last(built).missing_runtime_behavior = "Prompt"
          /\ Last(built).legacy_version_file = TRUE
          /\ Last(built).always_keep_download = FALSE
          /\ Last(built).verbose = ~tty

\* a recognized environment value leaves the other fields to the builder and
\* the defaults
C4_Witness ==
    /\ last = "build"
    /\ env = Some("ignore")
    /\ builder.always_keep_download = Some(TRUE)
    /\ ~is_some(builder.legacy_version_file)
    /\ Last(built).always_keep_download = TRUE
    /\ Last(built).legacy_version_file = TRUE

\* C5: each variant formats as its lowercase token, the four tokens differ,
\* and build() under the environment variable set to the token of v returns
\* v for every builder.
C5_EnumRoundTrip ==
    /\ fmt("AutoInstall") = "autoinstall" /\ fmt("Prompt") = "prompt"
    /\ fmt("Warn") = "warn" /\ fmt("Ignore") = "ignore"
    /\ \A v, w \in MissingRuntimeBehavior : v # w => fmt(v) # fmt(w)
    /\ \A v \in MissingRuntimeBehavior :
          env = Some(fmt(v)) =>
              \A i \in 1..Len(built) : built[i].missing_runtime_behavior = v

\* the token of Ignore read back over a builder that says Warn
C5_Witness ==
    /\ env = Some(fmt("Ignore"))
    /\ builder.missing_runtime_behavior = Some("Warn")
    /\ built # <<>>
    /\ Last(built).missing_runtime_behavior = "Ignore"

ExportKeys ==
    << "missing_runtime_behavior", "always_keep_download", "legacy_version_file",
       "disable_plugin_short_name_repository",
       "plugin_autoupdate_last_check_duration",
       "plugin_repository_last_check_duration", "verbose" >>

\* C6: to_index_map returns exactly seven entries, keyed in declaration
\* order, with no aliases key; booleans render as true/false and the enum as
\* its token.
C6_ExportKeyOrder ==
    last = "to_index_map" =>
        LET s == Last(built)
        IN  /\ Len(map) = 7
            /\ [i \in 1..Len(map) |-> map[i][1]] = ExportKeys
            /\ \A i \in 1..Len(map) : map[i][1] # "aliases"
            /\ map[1][2] \in RecognizedTokens
            /\ VariantOfToken(map[1][2]) = s.missing_runtime_behavior
            /\ map[2][2] = (IF s.always_keep_download THEN "true" ELSE "false")
            /\ map[3][2] = (IF s.legacy_version_file THEN "true" ELSE "false")
            /\ map[4][2] = (IF s.disable_plugin_short_name_repository
                            THEN "true" ELSE "false")
            /\ map[7][2] = (IF s.verbose THEN "true" ELSE "false")

\* settings with aliases, built from a builder with every field set, exported
C6_Witness ==
    /\ last = "to_index_map"
    /\ Last(built).aliases # <<>>
    /\ builder = AllFields(TRUE)
    /\ Len(map) = 7

\* the decimal numeral of n, for n below 100000
Numeral(n) ==
    LET d == <<"0", "1", "2", "3", "4", "5", "6", "7", "8", "9">>
        from(k) == IF n >= k THEN d[((n \div k) % 10) + 1] ELSE ""
    IN  from(10000) \o from(1000) \o from(100) \o from(10) \o d[(n % 10) + 1]

\* the whole minutes in s seconds, counted by taking away days, then hours,
\* then minutes
RECURSIVE WholeMinutes(_)
WholeMinutes(s) ==
    IF s >= 86400 THEN 1440 + WholeMinutes(s - 86400)
    ELSE IF s >= 3600 THEN 60 + WholeMinutes(s - 3600)
    ELSE IF s >= 60 THEN 1 + WholeMinutes(s - 60)
    ELSE 0

\* C7: each duration key exports the whole minutes of its own field,
\* truncated: 90 seconds as "1", 59 seconds as "0", 119 seconds as "1".
C7_DurationMinutes ==
    last = "to_index_map" =>
        LET a == Last(built).plugin_autoupdate_last_check_duration
            r == Last(built).plugin_repository_last_check_duration
        IN  /\ map[5] = <<"plugin_autoupdate_last_check_duration",
                          Numeral(WholeMinutes(a))>>
            /\ map[6] = <<"plugin_repository_last_check_duration",
                          Numeral(WholeMinutes(r))>>
            /\ a = 90 => map[5][2] = "1"
            /\ a = 59 => map[5][2] = "0"
            /\ a = 119 => map[5][2] = "1"
            /\ r = 90 => map[6][2] = "1"
            /\ r = 59 => map[6][2] = "0"
            /\ r = 119 => map[6][2] = "1"

\* 59 and 90 seconds exported side by side
C7_Witness ==
    /\ last = "to_index_map"
    /\ Last(built).plugin_autoupdate_last_check_duration = 59
    /\ Last(built).plugin_repository_last_check_duration = 90
    /\ map[5][2] = "0"
    /\ map[6][2] = "1"

\* C8: merging an all-unset builder into a leaves every field of a as it
\* was, and merging a into an all-unset builder yields a.
C8_MergeDefaultIdentity ==
    [][ merged' # merged =>
          /\ Last(merged') = SettingsBuilder_default => builder' = builder
          /\ builder = SettingsBuilder_default => builder' = Last(merged') ]_vars

\* a builder with every field set, merged into the empty builder and then
\* merged with an empty one
C8_Witness ==
    /\ Len(merged) = 2
    /\ merged[1] = AllFields(TRUE)
    /\ merged[2] = SettingsBuilder_default
    /\ builder = AllFields(TRUE)

\* C9 as stated: two build() calls on a builder whose verbose is unset return
\* the same verbose, also when is_tty answers differently between them.
C9_VerboseComputedOnce ==
    ~is_some(builder.verbose) =>
        \A i, j \in 1..Len(built) : built[i].verbose = built[j].verbose

\* C9 amended: the default of verbose is computed within each build() call:
\* on a builder whose verbose is unset the call returns verbose = not is_tty
\* as is_tty answers during that call.
C9_VerboseComputedPerBuild ==
    [][ (built' # built /\ ~is_some(builder.verbose)) =>
            Last(built').verbose = ~tty ]_vars

\* two builds of a builder with verbose unset, is_tty having changed between
C9_Witness ==
    /\ Len(built) = 2
    /\ ~is_some(builder.verbose)
    /\ built[1].verbose # built[2].verbose

\* C10 as stated: _merge leaves the left-hand builder as it was, build()
\* leaves the builder unchanged and gives equal Settings when repeated under
\* the same environment and is_tty, to_index_map leaves the Settings unchanged.
C10_NoOperationChangesItsInput ==
    [][ /\ merged' # merged => builder' = builder
        /\ built' # built =>
              /\ builder' = builder
              /\ last = "build" => Last(built') = Last(built)
        /\ last' = "to_index_map" => built' = built ]_vars

\* C10 amended: _merge works in place, the left-hand builder changing exactly
\* when the right-hand one sets a field to a value the left-hand one did not
\* hold; build() and to_index_map leave their inputs unchanged, and build()
\* repeated under the same environment and is_tty gives equal Settings.
C10_OnlyMergeChangesItsReceiver ==
    [][ /\ merged' # merged =>
              (builder' # builder <=>
                  \E f \in Fields : /\ is_some(Last(merged')[f])
                                    /\ Last(merged')[f] # builder[f])
        /\ built' # built =>
              /\ builder' = builder
              /\ last = "build" => Last(built') = Last(built)
        /\ last' = "to_index_map" => (built' = built /\ builder' = builder) ]_vars

\* a builder changed by _merge, built twice in a row and exported
C10_Witness ==
    /\ Len(merged) = 1
    /\ builder # SettingsBuilder_default
    /\ builder = merged[1]
    /\ Len(built) = 2
    /\ built[1] = built[2]
    /\ last = "to_index_map"

====
